---- MODULE Spec2Model ----
(***************************************************************************)
(* State-machine model of histomicstk/features/FeatureExtraction.py:       *)
(* FeatureExtraction(Label, In, Ic, K, Fs, Delta) and GetBounds.           *)
(*                                                                         *)
(* Arrays keep the source's 0-based indexing: an array of length n is a    *)
(* function with domain 0..n-1, a 2-D array is an array of rows.             *)
(* The library calls are modelled by what they compute (regionprops,       *)
(* disk, dilation, slicing, logical_xor, argwhere); the four feature       *)
(* collaborators, whose code is in other files of the package, are         *)
(* modelled as uninterpreted functions of their arguments.                 *)
(***************************************************************************)
EXTENDS Integers, Sequences, FiniteSets, TLC

\* ----------------------------------------------------------------- bounds
ImgRows == 2
ImgCols == 3
MaxPixels == 2
MaxLabel == 2
MaxDelta == 1
MaxFs == 1

\* ------------------------------------------------------ program constants
DefaultK == 128
DefaultFs == 6
DefaultDelta == 8

\* ---------------------------------------------------------------- helpers
Max2(a, b) == IF a >= b THEN a ELSE b
Min2(a, b) == IF a <= b THEN a ELSE b

SetMin(S) == CHOOSE x \in S : \A y \in S : x <= y
SetMax(S) == CHOOSE x \in S : \A y \in S : x >= y

\* sum of coordinate `axis` over a set of pixel coordinates: each value v in
\* lo..hi counted once per pixel that has it (the range is halved to keep the
\* evaluation shallow)
RECURSIVE AxisSumIn(_, _, _, _)
AxisSumIn(S, axis, lo, hi) ==
    IF lo > hi THEN 0
    ELSE IF lo = hi THEN lo * Cardinality({p \in S : p[axis] = lo})
    ELSE LET mid == (lo + hi) \div 2
         IN AxisSumIn(S, axis, lo, mid) + AxisSumIn(S, axis, mid + 1, hi)

AxisSum(S, axis) ==
    IF S = {} THEN 0
    ELSE AxisSumIn(S, axis, SetMin({p[axis] : p \in S}), SetMax({p[axis] : p \in S}))

\* the array itself, with every entry computed (once)
Eager(A) == IF A = A THEN A ELSE A

\* length of a 0-based array
Length(a) == Cardinality(DOMAIN a)

\* (rows, columns) of a 2-D array stored as an array of rows
Shape(A) == <<Length(A), IF Length(A) = 0 THEN 0 ELSE Length(A[0])>>

\* the float 0.0 that np.zeros fills with and that a literal 0 is stored as
Zero == [kind |-> "zero"]

\* A row vector of floats is kept as one value with its width: a row of
\* np.zeros, or the vector a feature collaborator returned.  Element(v, k) is
\* v[k].
ZeroVector(w) == [kind |-> "zeros", width |-> w]
Element(v, k) == IF v.kind = "zeros" THEN Zero ELSE [kind |-> "element", of |-> v, out |-> k]

\* np.zeros(n + 1): one slot too many
ZerosOffByOne(n) == [j \in 0..n |-> Zero]

\* np.zeros(n) and np.zeros((n, w))
Zeros(n) == [j \in 0..(n - 1) |-> Zero]
Zeros2(n, w) == [j \in 0..(n - 1) |-> ZeroVector(w)]

\* ------------------------------------------------- skimage.measure.regionprops
\* One region per distinct positive label, in ascending label order.
LabelsOf(L) == {L[r][c] : r \in DOMAIN L, c \in DOMAIN L[0]} \ {0}

CoordsOf(L, l) == {p \in (DOMAIN L) \X (DOMAIN L[0]) : L[p[1]][p[2]] = l}

\* bbox is half-open: (min_row, min_col, max_row, max_col), max exclusive
BBoxOf(S) == <<SetMin({p[1] : p \in S}), SetMin({p[2] : p \in S}),
               SetMax({p[1] : p \in S}) + 1, SetMax({p[2] : p \in S}) + 1>>

\* centroid = mean of the coordinates; an exact fraction [num, den] per axis
CentroidOf(S) ==
    <<[kind |-> "ratio", num |-> AxisSum(S, 1), den |-> Cardinality(S)],
      [kind |-> "ratio", num |-> AxisSum(S, 2), den |-> Cardinality(S)]>>

\* skimage.measure.perimeter (4-neighbourhood): the border pixels of the
\* region are weighted by their 3x3 configuration code: 1, sqrt(2) or
\* (1 + sqrt(2))/2.  The value is kept exact as <<a, b>>, standing for
\* (a + b*sqrt(2)) / 2.
N4(p) == {<<p[1] - 1, p[2]>>, <<p[1] + 1, p[2]>>,
          <<p[1], p[2] - 1>>, <<p[1], p[2] + 1>>}
ND(p) == {<<p[1] - 1, p[2] - 1>>, <<p[1] - 1, p[2] + 1>>,
          <<p[1] + 1, p[2] - 1>>, <<p[1] + 1, p[2] + 1>>}

BorderOf(S) == {p \in S : ~(N4(p) \subseteq S)}

PerimeterCode(B, p) ==
    1 + 2 * Cardinality(N4(p) \cap B) + 10 * Cardinality(ND(p) \cap B)

PerimeterOf(S) ==
    LET B  == BorderOf(S)
        w1 == Cardinality({p \in B : PerimeterCode(B, p) \in {5, 7, 15, 17, 25, 27}})
        w2 == Cardinality({p \in B : PerimeterCode(B, p) \in {21, 33}})
        w3 == Cardinality({p \in B : PerimeterCode(B, p) \in {13, 23}})
    IN <<2 * w1 + w3, 2 * w2 + w3>>

\* the remaining float properties are opaque values of the region
RegionProp(name, l) == [kind |-> "prop", prop |-> name, label |-> l]

RegionOf(L, l) ==
    LET S == CoordsOf(L, l)
    IN [label |-> l,
        bbox |-> BBoxOf(S),
        area |-> Cardinality(S),
        centroid |-> CentroidOf(S),
        coords |-> S,
        perimeter |-> PerimeterOf(S),
        eccentricity |-> RegionProp("eccentricity", l),
        major_axis_length |-> RegionProp("major_axis_length", l),
        minor_axis_length |-> RegionProp("minor_axis_length", l),
        extent |-> RegionProp("extent", l),
        solidity |-> RegionProp("solidity", l)]

regionprops(L) ==
    LET ls == LabelsOf(L)
        nth(j) == CHOOSE l \in ls : Cardinality({k \in ls : k < l}) = j
    IN [j \in 0..(Cardinality(ls) - 1) |-> RegionOf(L, nth(j))]

\* ------------------------------------------------------------ numpy / skimage
\* Python slice bound k against an axis of length n: negative counts from
\* the end, then clipped to [0, n]
SliceIndex(k, n) == IF k < 0 THEN Max2(0, k + n) ELSE Min2(k, n)

\* A[r0:r1, c0:c1]
Slice(A, r0, r1, c0, c1) ==
    LET sh  == Shape(A)
        rlo == SliceIndex(r0, sh[1])
        rhi == SliceIndex(r1, sh[1])
        clo == SliceIndex(c0, sh[2])
        chi == SliceIndex(c1, sh[2])
    IN [r \in 0..(rhi - rlo - 1) |->
          [c \in 0..(chi - clo - 1) |-> A[rlo + r][clo + c]]]

\* (A == v).astype(np.bool)
EqualTo(A, v) == [r \in DOMAIN A |-> [c \in DOMAIN A[r] |-> A[r][c] = v]]

\* (A > 0).astype(np.uint8)
Positive(A) ==
    [r \in DOMAIN A |-> [c \in DOMAIN A[r] |-> IF A[r][c] > 0 THEN 1 ELSE 0]]

\* skimage.morphology.disk(radius): (2r+1) x (2r+1) array of 0/1
disk(radius) ==
    [r \in 0..(2 * radius) |-> [c \in 0..(2 * radius) |->
        IF (r - radius) * (r - radius) + (c - radius) * (c - radius)
               <= radius * radius
        THEN 1 ELSE 0]]

\* coordinates of the true entries of a boolean array (np.argwhere)
argwhere(B) == {p \in (DOMAIN B) \X (IF DOMAIN B = {} THEN {} ELSE DOMAIN B[0]) :
                   B[p[1]][p[2]]}

\* skimage.morphology.dilation(image, selem) of a boolean image: a pixel is
\* set when some set pixel of the image lies under the structuring element
\* centred on it.  (The reflecting border of the library adds nothing for a
\* disk: a mirrored pixel is never farther than the pixel it mirrors.)
dilation(image, selem) ==
    LET cr == (Length(selem) - 1) \div 2
        cc == (Shape(selem)[2] - 1) \div 2
        on == argwhere(image)
    IN [r \in DOMAIN image |-> [c \in DOMAIN image[r] |->
          \E q \in on :
              /\ (q[1] - r + cr) \in DOMAIN selem
              /\ (q[2] - c + cc) \in DOMAIN selem[0]
              /\ selem[q[1] - r + cr][q[2] - c + cc] = 1]]

\* np.logical_xor(A, B), A of 0/1 integers and B of booleans
logical_xor(A, B) ==
    [r \in DOMAIN A |-> [c \in DOMAIN A[r] |-> (A[r][c] # 0) # B[r][c]]]

\* ------------------------------------------------------------------ GetBounds
\* GetBounds without the clipping to the image
GetBoundsUnclipped(bbox, delta, M, N) ==
    <<bbox[1] - delta, bbox[3] + delta, bbox[2] - delta, bbox[4] + delta>>

\* GetBounds taking the last row and column of the box, not one past them
GetBoundsInclusive(bbox, delta, M, N) ==
    <<Max2(0, bbox[1] - delta), Min2(M - 1, bbox[3] - 1 + delta),
      Max2(0, bbox[2] - delta), Min2(N - 1, bbox[4] - 1 + delta)>>

GetBounds(bbox, delta, M, N) ==
    LET bmin_row == bbox[1]
        bmin_col == bbox[2]
        bmax_row == bbox[3]
        bmax_col == bbox[4]
        min_row_out == Max2(0, bmin_row - delta)
        max_row_out == Min2(M - 1, bmax_row + delta)
        min_col_out == Max2(0, bmin_col - delta)
        max_col_out == Min2(N - 1, bmax_col + delta)
    IN <<min_row_out, max_row_out, min_col_out, max_col_out>>

\* ---------------------------------------------------------------- Circularity
\* 4 * np.pi * area
FourPiTimes(area) == [kind |-> "pi", coef |-> 4 * area]

\* np.power(perimeter, 2) of (a + b*sqrt(2))/2: <<x, y>> for (x + y*sqrt(2))/4
PowerTwo(perimeter) ==
    <<perimeter[1] * perimeter[1] + 2 * perimeter[2] * perimeter[2],
      2 * perimeter[1] * perimeter[2]>>

\* truth value of a float
Truthy(x) == x # <<0, 0>>

\* float64 division: a positive numerator over 0.0 is inf
Divide(n, d) == IF d = <<0, 0>> THEN [kind |-> "inf"]
                ELSE [kind |-> "ratio", num |-> n, den |-> d]

\* the quotient without the guard on the denominator
CircularityUnguarded(area, perimeter) ==
    Divide(FourPiTimes(area), PowerTwo(perimeter))

CircularityOf(area, perimeter) ==
    LET numerator   == FourPiTimes(area)
        denominator == PowerTwo(perimeter)
    IN IF Truthy(denominator) THEN Divide(numerator, denominator) ELSE Zero

\* -------------------------------------------------------- feature collaborators
\* The intensity images and the whole-image fields derived from them
In == [kind |-> "image", name |-> "In"]
Ic == [kind |-> "image", name |-> "Ic"]
GradientMagnitude(I) == [kind |-> "sqrt(Gx**2 + Gy**2)", of |-> I]
canny(I) == [kind |-> "canny", of |-> I]

diffGn == GradientMagnitude(In)
BW_cannyn == canny(In)
diffGc == GradientMagnitude(Ic)
BW_cannyc == canny(Ic)

\* Each collaborator returns a vector of fixed width that is a function of
\* its arguments and of nothing else.
ComputeFSDs(mask, k, fs) ==
    [kind |-> "ComputeFSDs", width |-> fs, mask |-> mask, K |-> k, Fs |-> fs]

ComputeTextureFeatures(I, coords) ==
    [kind |-> "ComputeTextureFeatures", width |-> 4, image |-> I, coords |-> coords]

ComputeGradientFeatures(I, coords, diffG, BW_canny) ==
    [kind |-> "ComputeGradientFeatures", width |-> 8, image |-> I,
     coords |-> coords, diffG |-> diffG, BW_canny |-> BW_canny]

ComputeIntensityFeatures(I, coords) ==
    [kind |-> "ComputeIntensityFeatures", width |-> 5, image |-> I, coords |-> coords]

\* ------------------------------------------------------------------ data frame
\* A data frame is the sequence of its columns, [name, values], in insertion
\* order.  df[name] = values replaces the column of that name where it
\* stands, or appends a new column.  AssignColumns(a) is the frame after the
\* assignments a[1], a[2], ... made in turn to an empty frame: one column for
\* every name, placed by the first assignment to it and holding the values of
\* the last.
IsFirstAssignment(a, k) == \A e \in 1..(k - 1) : a[e].name # a[k].name

LastAssignment(a, name) ==
    CHOOSE k \in 1..Len(a) :
        /\ a[k].name = name
        /\ \A l \in (k + 1)..Len(a) : a[l].name # name

AssignColumns(a) ==
    LET first == Eager([k \in 1..Len(a) |-> IsFirstAssignment(a, k)])
        \* the column that assignment k creates, when it is a first one
        place == Eager([k \in 1..Len(a) |-> Cardinality({e \in 1..k : first[e]})])
    IN [m \in 1..(IF Len(a) = 0 THEN 0 ELSE place[Len(a)]) |->
          LET k == CHOOSE x \in 1..Len(a) : first[x] /\ place[x] = m
          IN [name |-> a[k].name,
              values |-> a[LastAssignment(a, a[k].name)].values]]

\* A[:, k]
ColumnOf(A, k) == [j \in DOMAIN A |-> Element(A[j], k)]

\* str(n), n >= 0
Digits == <<"0", "1", "2", "3", "4", "5", "6", "7", "8", "9">>
RECURSIVE str(_)
str(n) == IF n < 10 THEN Digits[n + 1]
          ELSE str(n \div 10) \o Digits[(n % 10) + 1]

TextureNames == <<"Entropy", "Energy", "Skewness", "Kurtosis">>

GradientNames == <<"MeanGradMag", "StdGradMag", "EntropyGradMag",
                   "EnergyGradMag", "SkewnessGradMag", "KurtosisGradMag",
                   "SumCanny", "MeanCanny">>

IntensityNames == <<"MeanIntensity", "MeanMedianDifferenceIntensity",
                    "MaxIntensity", "MinIntensity", "StdIntensity">>

FSDName(j) == "FSD" \o str(j + 1)
HematoxylinName(name) == "Hematoxylin" \o name
\* the cytoplasm column named like the hematoxylin one
CytoplasmNameAsHematoxylin(name) == "Hematoxylin" \o name
CytoplasmName(name) == "Cytoplasm" \o name

\* for j in range(0, fs): df['FSD' + str(j+1)] = G[:, j]
FSDAssignments(G, fs) ==
    [m \in 1..fs |-> [name |-> FSDName(m - 1), values |-> ColumnOf(G, m - 1)]]

\* for j in range(0, len(names)):
\*     df['Hematoxylin' + names[j]] = H[:, j]
\*     df['Cytoplasm' + names[j]] = E[:, j]
PairedAssignments(names, H, E) ==
    [m \in 1..(2 * Len(names)) |->
        LET j == (m - 1) \div 2
        IN IF m % 2 = 1
           THEN [name |-> HematoxylinName(names[j + 1]), values |-> ColumnOf(H, j)]
           ELSE [name |-> CytoplasmName(names[j + 1]), values |-> ColumnOf(E, j)]]

\* ----------------------------------------------------------------------- state
VARIABLES
    Label, K, Fs, Delta,            \* the arguments (In and Ic are opaque)
    pc,                             \* "start", "loop", "done"
    size_x, size_y, regions, num,
    CentroidX, CentroidY,
    Area, Perimeter, Eccentricity, Circularity,
    MajorAxisLength, MinorAxisLength, Extent, Solidity,
    FSDGroup,
    HematoxylinTextureGroup, EosinTextureGroup,
    HematoxylinGradientGroup, EosinGradientGroup,
    HematoxylinIntensityGroup, EosinIntensityGroup,
    i, regionIdx,                   \* loop variable and region index
    min_row, max_row, min_col, max_col,
    Nucleus, Mask, cytoplasm, regionCoords,
    df,
    writes                          \* history: stores into each array slot

inputs == <<Label, K, Fs, Delta>>
header == <<size_x, size_y, regions, num>>
scalars == <<CentroidX, CentroidY, Area, Perimeter, Eccentricity, Circularity,
             MajorAxisLength, MinorAxisLength, Extent, Solidity>>
groups == <<FSDGroup, HematoxylinTextureGroup, EosinTextureGroup,
            HematoxylinGradientGroup, EosinGradientGroup,
            HematoxylinIntensityGroup, EosinIntensityGroup>>
locals == <<min_row, max_row, min_col, max_col,
            Nucleus, Mask, cytoplasm, regionCoords>>
vars == <<inputs, pc, header, scalars, groups, i, regionIdx, locals, df, writes>>

ScalarArrays == {"CentroidX", "CentroidY", "Area", "Perimeter", "Eccentricity",
                 "Circularity", "MajorAxisLength", "MinorAxisLength", "Extent",
                 "Solidity"}
GroupArrays == {"FSDGroup", "HematoxylinTextureGroup", "EosinTextureGroup",
                "HematoxylinGradientGroup", "EosinGradientGroup",
                "HematoxylinIntensityGroup", "EosinIntensityGroup"}

\* ---------------------------------------------------------------------- inputs
Pixels == (0..(ImgRows - 1)) \X (0..(ImgCols - 1))

\* the ImgRows x ImgCols label images with at most MaxPixels labelled pixels,
\* labels in 1..MaxLabel
SmallImages ==
    { [r \in 0..(ImgRows - 1) |-> [c \in 0..(ImgCols - 1) |->
          IF <<r, c>> \in DOMAIN f THEN f[<<r, c>>] ELSE 0]] :
      f \in UNION { [S -> 1..MaxLabel] :
                    S \in {T \in SUBSET Pixels : Cardinality(T) <= MaxPixels} } }

\* a 50 x 50 image with one region, label 1, on rows 10..20 and cols 10..20
SquareImage ==
    [r \in 0..49 |-> [c \in 0..49 |->
        IF r \in 10..20 /\ c \in 10..20 THEN 1 ELSE 0]]

\* a 5 x 5 image with two adjacent nuclei: label 1 on rows 1..2 and cols
\* 1..2, label 2 on the pixel (3, 3), diagonal to the corner of label 1
TwoNucleiImage ==
    [r \in 0..4 |-> [c \in 0..4 |->
        IF r \in 1..2 /\ c \in 1..2 THEN 1
        ELSE IF r = 3 /\ c = 3 THEN 2 ELSE 0]]

\* the small images with one labelled pixel
OnePixelImages == {L \in SmallImages : Cardinality(CoordsOf(L, 0)) = ImgRows * ImgCols - 1}

Init ==
    /\ \/ /\ Label \in SmallImages
          /\ Delta \in {0, MaxDelta}
          /\ Fs = MaxFs
       \/ /\ Label \in OnePixelImages
          /\ Delta = DefaultDelta
          /\ Fs \in 0..MaxFs
       \/ /\ Label = TwoNucleiImage
          /\ Delta \in 0..MaxDelta
          /\ Fs = MaxFs
       \/ /\ Label = SquareImage
          /\ Delta = DefaultDelta
          /\ Fs = DefaultFs
    /\ K = DefaultK
    /\ pc = "start"
    /\ size_x = 0 /\ size_y = 0 /\ regions = <<>> /\ num = 0
    /\ CentroidX = <<>> /\ CentroidY = <<>>
    /\ Area = <<>> /\ Perimeter = <<>> /\ Eccentricity = <<>>
    /\ Circularity = <<>> /\ MajorAxisLength = <<>> /\ MinorAxisLength = <<>>
    /\ Extent = <<>> /\ Solidity = <<>>
    /\ FSDGroup = <<>>
    /\ HematoxylinTextureGroup = <<>> /\ EosinTextureGroup = <<>>
    /\ HematoxylinGradientGroup = <<>> /\ EosinGradientGroup = <<>>
    /\ HematoxylinIntensityGroup = <<>> /\ EosinIntensityGroup = <<>>
    /\ i = 0 /\ regionIdx = 0
    /\ min_row = 0 /\ max_row = 0 /\ min_col = 0 /\ max_col = 0
    /\ Nucleus = <<>> /\ Mask = <<>> /\ cytoplasm = <<>> /\ regionCoords = {}
    /\ df = <<>>
    /\ writes = <<>>

\* --------------------------------------------------------------------- actions
\* Disk = disk(Delta)
Disk == disk(Delta)

\* lines 72-122: sizes, regions, the zeroed output arrays, regionIdx = 0
Setup ==
    /\ pc = "start"
    /\ size_x' = Shape(Label)[1]
    /\ size_y' = Shape(Label)[2]
    /\ regions' = regionprops(Label)
    /\ num' = Length(regions')
    /\ CentroidX' = Zeros(num') /\ CentroidY' = Zeros(num')
    /\ Area' = Zeros(num') /\ Perimeter' = Zeros(num')
    /\ Eccentricity' = Zeros(num') /\ Circularity' = Zeros(num')
    /\ MajorAxisLength' = Zeros(num') /\ MinorAxisLength' = Zeros(num')
    /\ Extent' = Zeros(num') /\ Solidity' = Zeros(num')
    /\ FSDGroup' = Zeros2(num', Fs)
    /\ HematoxylinTextureGroup' = Zeros2(num', 4)
    /\ EosinTextureGroup' = Zeros2(num', 4)
    /\ HematoxylinGradientGroup' = Zeros2(num', 8)
    /\ EosinGradientGroup' = Zeros2(num', 8)
    /\ HematoxylinIntensityGroup' = Zeros2(num', 5)
    /\ EosinIntensityGroup' = Zeros2(num', 5)
    /\ regionIdx' = 0
    /\ i' = 0
    /\ writes' = [a \in ScalarArrays \cup GroupArrays |->
                     [j \in 0..(num' - 1) |-> 0]]
    /\ pc' = "loop"
    /\ UNCHANGED <<inputs, locals, df>>

\* np.logical_or in place of np.logical_xor
CytoplasmByOr(mask, nucleus, selem) ==
    LET d == dilation(nucleus, selem)
    IN [r \in DOMAIN mask |-> [c \in DOMAIN mask[r] |-> (mask[r][c] # 0) \/ d[r][c]]]

\* the occupied pixels minus the dilated nucleus
CytoplasmMinusFootprint(mask, nucleus, selem) ==
    LET d == dilation(nucleus, selem)
    IN [r \in DOMAIN mask |-> [c \in DOMAIN mask[r] |-> (mask[r][c] # 0) /\ ~d[r][c]]]

\* the mask of the cytoplasm, lines 169-171
CytoplasmOf(mask, nucleus, selem) == logical_xor(mask, dilation(nucleus, selem))

\* window coordinates to image coordinates: lines 173-175
Translate(coords, row0, col0) == {<<p[1] + row0, p[2] + col0>> : p \in coords}

\* the region index left as it is
SameRegionIdx(idx) == idx

\* line 184
NextRegionIdx(idx) == idx + 1

\* lines 125-184: one iteration of the loop over the regions
LoopBody ==
    /\ pc = "loop"
    /\ i < num
    /\ CentroidX' = [CentroidX EXCEPT ![i] = regions[i].centroid[1]]
    /\ CentroidY' = [CentroidY EXCEPT ![i] = regions[i].centroid[2]]
    /\ Area' = [Area EXCEPT ![i] = regions[i].area]
    /\ Perimeter' = [Perimeter EXCEPT ![i] = regions[i].perimeter]
    /\ Eccentricity' = [Eccentricity EXCEPT ![i] = regions[i].eccentricity]
    /\ Circularity' =
           [Circularity EXCEPT ![i] = CircularityOf(Area'[i], Perimeter'[i])]
    /\ MajorAxisLength' =
           [MajorAxisLength EXCEPT ![i] = regions[i].major_axis_length]
    /\ MinorAxisLength' =
           [MinorAxisLength EXCEPT ![i] = regions[i].minor_axis_length]
    /\ Extent' = [Extent EXCEPT ![i] = regions[i].extent]
    /\ Solidity' = [Solidity EXCEPT ![i] = regions[i].solidity]
    /\ LET bounds == GetBounds(regions[i].bbox, Delta, size_x, size_y)
       IN /\ min_row' = bounds[1]
          /\ max_row' = bounds[2]
          /\ min_col' = bounds[3]
          /\ max_col' = bounds[4]
    /\ Nucleus' = Eager(EqualTo(Slice(Label, min_row', max_row', min_col', max_col'),
                                regions[i].label))
    /\ FSDGroup' = [FSDGroup EXCEPT ![regionIdx] = ComputeFSDs(Nucleus', K, Fs)]
    /\ LET Nuclei == regions[i].coords
       IN /\ HematoxylinTextureGroup' =
                 [HematoxylinTextureGroup EXCEPT
                     ![regionIdx] = ComputeTextureFeatures(In, Nuclei)]
          /\ HematoxylinGradientGroup' =
                 [HematoxylinGradientGroup EXCEPT
                     ![regionIdx] = ComputeGradientFeatures(In, Nuclei, diffGn, BW_cannyn)]
          /\ HematoxylinIntensityGroup' =
                 [HematoxylinIntensityGroup EXCEPT
                     ![regionIdx] = ComputeIntensityFeatures(In, Nuclei)]
    /\ Mask' = Eager(Positive(Slice(Label, min_row', max_row', min_col', max_col')))
    /\ cytoplasm' = Eager(CytoplasmOf(Mask', Nucleus', Disk))
    /\ regionCoords' = Translate(argwhere(cytoplasm'), min_row', min_col')
    /\ EosinTextureGroup' =
           [EosinTextureGroup EXCEPT
               ![regionIdx] = ComputeTextureFeatures(Ic, regionCoords')]
    /\ EosinGradientGroup' =
           [EosinGradientGroup EXCEPT
               ![regionIdx] = ComputeGradientFeatures(Ic, regionCoords', diffGc, BW_cannyc)]
    /\ EosinIntensityGroup' =
           [EosinIntensityGroup EXCEPT
               ![regionIdx] = ComputeIntensityFeatures(Ic, regionCoords')]
    /\ writes' = [a \in DOMAIN writes |->
                    [j \in DOMAIN writes[a] |->
                        IF j = (IF a \in ScalarArrays THEN i ELSE regionIdx)
                        THEN writes[a][j] + 1 ELSE writes[a][j]]]
    /\ regionIdx' = NextRegionIdx(regionIdx)
    /\ i' = i + 1
    /\ UNCHANGED <<inputs, pc, header, df>>

\* lines 186-226: the data frame
BuildTable ==
    /\ pc = "loop"
    /\ i >= num
    /\ \E a \in {
                 << [name |-> "X", values |-> CentroidX],
                    [name |-> "Y", values |-> CentroidY],
                    [name |-> "Area", values |-> Area],
                    [name |-> "Perimeter", values |-> Perimeter],
                    [name |-> "Eccentricity", values |-> Eccentricity],
                    [name |-> "Circularity", values |-> Circularity],
                    [name |-> "MajorAxisLength", values |-> MajorAxisLength],
                    [name |-> "MinorAxisLength", values |-> MinorAxisLength],
                    [name |-> "Extent", values |-> Extent],
                    [name |-> "Solidity", values |-> Solidity] >>
                 \o FSDAssignments(FSDGroup, Fs)
                 \o PairedAssignments(TextureNames, HematoxylinTextureGroup,
                                      EosinTextureGroup)
                 \o PairedAssignments(GradientNames, HematoxylinGradientGroup,
                                      EosinGradientGroup)
                 \o PairedAssignments(IntensityNames, HematoxylinIntensityGroup,
                                      EosinIntensityGroup) } :
           df' = AssignColumns(a)
    /\ pc' = "done"
    /\ UNCHANGED <<inputs, header, scalars, groups, i, regionIdx, locals, writes>>

Next == Setup \/ LoopBody \/ BuildTable

Spec == Init /\ [][Next]_vars

\* ---------------------------------------------------------------------- claims
\* The state after an iteration of the loop describes region i - 1: the
\* bounds, Nucleus, Mask, cytoplasm and regionCoords are the ones computed
\* for it.
AfterIteration == pc \in {"loop", "done"} /\ i > 0
Current == regions[i - 1]

\* the pixels of the window, in window coordinates
WindowPixels == {p \in (DOMAIN cytoplasm) \X (0..(size_y - 1)) :
                    p[2] \in DOMAIN cytoplasm[p[1]]}

\* the label under a window pixel
LabelAt(p) == Label[p[1] + min_row][p[2] + min_col]

\* the column of the table with a given name
Column(name) == df[CHOOSE j \in 1..Len(df) : df[j].name = name].values

ColumnNames == [j \in 1..Len(df) |-> df[j].name]

\* the number of distinct positive labels of the label image
DistinctPositiveLabels ==
    Cardinality({v \in {Label[r][c] : r \in DOMAIN Label, c \in DOMAIN Label[0]} : v > 0})

\* C1: the returned table has exactly as many rows, in every column, as the
\* label image has distinct positive labels; for an all-zero label image all
\* 44 + Fs columns are present, each of length zero.
C1_RowCount ==
    pc = "done" =>
        /\ Len(df) > 0
        /\ \A j \in 1..Len(df) : Length(df[j].values) = DistinctPositiveLabels
        /\ DistinctPositiveLabels = 0 =>
               /\ Len(df) = 44 + Fs
               /\ \A j \in 1..Len(df) : df[j].values = <<>>

C1_Witness ==
    /\ pc = "done"
    /\ DistinctPositiveLabels = 0
    /\ Len(df) = 44 + Fs
    /\ Column("X") = <<>>

\* C2: no pixel of the window that belongs to another region's nucleus (its
\* label is positive and differs from the current region's label) is in the
\* current region's CytoplasmMask, nor is its coordinate among the region's
\* cytoplasm pixel coordinates.
C2_OtherNucleiExcluded ==
    AfterIteration =>
        \A p \in WindowPixels :
            (LabelAt(p) > 0 /\ LabelAt(p) # Current.label) =>
                /\ ~cytoplasm[p[1]][p[2]]
                /\ <<p[1] + min_row, p[2] + min_col>> \notin regionCoords

\* C3: the CytoplasmMask and the NucleusMask of the same region never
\* intersect, for every Delta >= 0: no window pixel carrying the region's own
\* label is a cytoplasm pixel.
C3_CytoplasmDisjointFromNucleus ==
    AfterIteration =>
        /\ \A p \in WindowPixels : ~(cytoplasm[p[1]][p[2]] /\ Nucleus[p[1]][p[2]])
        /\ \A p \in WindowPixels :
               LabelAt(p) = Current.label => ~cytoplasm[p[1]][p[2]]
        /\ \A q \in regionCoords : Label[q[1]][q[2]] # Current.label

C3_Witness ==
    /\ AfterIteration
    /\ Delta = 0
    /\ argwhere(Nucleus) # {}

\* C4: the bounds GetBounds returns for a region of an M x N label image
\* satisfy 0 <= min_row <= max_row <= M-1 and 0 <= min_col <= max_col <= N-1
\* for every Delta >= 0, also when Delta exceeds the image extent.
C4_BoundsInImage ==
    AfterIteration =>
        /\ 0 <= min_row /\ min_row <= max_row /\ max_row <= size_x - 1
        /\ 0 <= min_col /\ min_col <= max_col /\ max_col <= size_y - 1

C4_Witness ==
    /\ AfterIteration
    /\ Delta > size_x /\ Delta > size_y
    /\ min_row = 0 /\ max_row = size_x - 1
    /\ min_col = 0 /\ max_col = size_y - 1

SquareCase == Label = SquareImage /\ Delta = 8 /\ AfterIteration

BoundsOfRegion(j) == GetBounds(regions[j].bbox, Delta, size_x, size_y)

WindowOfRegion(j) ==
    Slice(Label, BoundsOfRegion(j)[1], BoundsOfRegion(j)[2],
          BoundsOfRegion(j)[3], BoundsOfRegion(j)[4])

NucleusOfRegion(j) == EqualTo(WindowOfRegion(j), regions[j].label)

CytoplasmCoordsOfRegion(j) ==
    Translate(argwhere(CytoplasmOf(Positive(WindowOfRegion(j)),
                                   NucleusOfRegion(j), Disk)),
              BoundsOfRegion(j)[1], BoundsOfRegion(j)[3])

\* row j of the paired columns of one feature group holds the collaborator's
\* values for region j: nucleus pixels for Hematoxylin, cytoplasm for Cytoplasm
PairedColumnsOfRegion(j, names, hematoxylin, cytoplasm_) ==
    \A n \in 1..Len(names) :
        /\ Column("Hematoxylin" \o names[n])[j] = Element(hematoxylin, n - 1)
        /\ Column("Cytoplasm" \o names[n])[j] = Element(cytoplasm_, n - 1)

\* C6: row i of the table holds the features of the i-th region of the
\* enumeration in every column: X and Y are its centroid row and column as
\* they are, the FSD, texture, gradient and intensity values are the ones
\* computed from its own masks and pixels; regionIdx equals the loop variable
\* at the start of every iteration, and every output slot is stored into
\* exactly once.
C6_RowsFollowRegions ==
    /\ pc = "loop" => regionIdx = i
    /\ pc \in {"loop", "done"} =>
           \A a \in DOMAIN writes : \A j \in DOMAIN writes[a] :
               writes[a][j] = (IF j < i THEN 1 ELSE 0)
    /\ pc = "done" =>
           /\ i = num
           /\ \A j \in 0..(num - 1) :
                  /\ Column("X")[j] = regions[j].centroid[1]
                  /\ Column("Y")[j] = regions[j].centroid[2]
                  /\ Column("Area")[j] = regions[j].area
                  /\ Column("Eccentricity")[j] = regions[j].eccentricity
                  /\ \A k \in 0..(Fs - 1) :
                         Column("FSD" \o str(k + 1))[j] =
                             Element(ComputeFSDs(NucleusOfRegion(j), K, Fs), k)
                  /\ PairedColumnsOfRegion(j, TextureNames,
                         ComputeTextureFeatures(In, regions[j].coords),
                         ComputeTextureFeatures(Ic, CytoplasmCoordsOfRegion(j)))
                  /\ PairedColumnsOfRegion(j, GradientNames,
                         ComputeGradientFeatures(In, regions[j].coords, diffGn, BW_cannyn),
                         ComputeGradientFeatures(Ic, CytoplasmCoordsOfRegion(j),
                                                 diffGc, BW_cannyc))
                  /\ PairedColumnsOfRegion(j, IntensityNames,
                         ComputeIntensityFeatures(In, regions[j].coords),
                         ComputeIntensityFeatures(Ic, CytoplasmCoordsOfRegion(j)))

C6_Witness ==
    /\ pc = "done"
    /\ num = 2
    /\ Column("X")[0] = regions[0].centroid[1]
    /\ Column("X")[1] = regions[1].centroid[1]
    /\ regions[0].coords # regions[1].coords

\* 4*pi*area / perimeter^2 for a perimeter (a + b*sqrt(2))/2: the quotient of
\* 4*area*pi by (a*a + 2*b*b + 2*a*b*sqrt(2))/4
CircularityRatio(area, a, b) ==
    [kind |-> "ratio",
     num |-> [kind |-> "pi", coef |-> 4 * area],
     den |-> <<a * a + 2 * b * b, 2 * a * b>>]

\* C7: the Circularity of a region is 0 when its Perimeter is 0 and
\* 4*pi*Area/Perimeter^2 otherwise; it is never the result of a division by
\* zero.
C7_Circularity ==
    pc \in {"loop", "done"} =>
        \A j \in 0..(i - 1) :
            /\ Area[j] = regions[j].area
            /\ Perimeter[j] = regions[j].perimeter
            /\ Perimeter[j] = <<0, 0>> => Circularity[j] = Zero
            /\ Perimeter[j] # <<0, 0>> =>
                   Circularity[j] =
                       CircularityRatio(Area[j], Perimeter[j][1], Perimeter[j][2])
            /\ Circularity[j].kind # "inf"
            /\ pc = "done" => Column("Circularity")[j] = Circularity[j]

C7_Witness ==
    /\ AfterIteration
    /\ Perimeter[i - 1] = <<0, 0>>
    /\ Area[i - 1] > 0
    /\ Circularity[i - 1] = Zero

\* the names of section 6, in order
FixedColumns == <<"X", "Y", "Area", "Perimeter", "Eccentricity", "Circularity",
                  "MajorAxisLength", "MinorAxisLength", "Extent", "Solidity">>

FSDColumns == <<"FSD1", "FSD2", "FSD3", "FSD4", "FSD5", "FSD6", "FSD7", "FSD8",
                "FSD9", "FSD10", "FSD11", "FSD12">>

PairedColumns ==
    <<"HematoxylinEntropy", "CytoplasmEntropy",
      "HematoxylinEnergy", "CytoplasmEnergy",
      "HematoxylinSkewness", "CytoplasmSkewness",
      "HematoxylinKurtosis", "CytoplasmKurtosis",
      "HematoxylinMeanGradMag", "CytoplasmMeanGradMag",
      "HematoxylinStdGradMag", "CytoplasmStdGradMag",
      "HematoxylinEntropyGradMag", "CytoplasmEntropyGradMag",
      "HematoxylinEnergyGradMag", "CytoplasmEnergyGradMag",
      "HematoxylinSkewnessGradMag", "CytoplasmSkewnessGradMag",
      "HematoxylinKurtosisGradMag", "CytoplasmKurtosisGradMag",
      "HematoxylinSumCanny", "CytoplasmSumCanny",
      "HematoxylinMeanCanny", "CytoplasmMeanCanny",
      "HematoxylinMeanIntensity", "CytoplasmMeanIntensity",
      "HematoxylinMeanMedianDifferenceIntensity",
      "CytoplasmMeanMedianDifferenceIntensity",
      "HematoxylinMaxIntensity", "CytoplasmMaxIntensity",
      "HematoxylinMinIntensity", "CytoplasmMinIntensity",
      "HematoxylinStdIntensity", "CytoplasmStdIntensity">>

\* C8: the table has exactly 44 + Fs columns, in the order X, Y, Area,
\* Perimeter, Eccentricity, Circularity, MajorAxisLength, MinorAxisLength,
\* Extent, Solidity, FSD1..FSD<Fs>, then Hematoxylin<name>, Cytoplasm<name>
\* for the 4 texture names, the 8 gradient names and the 5 intensity names;
\* no name appears twice.
C8_Columns ==
    pc = "done" =>
        /\ Len(df) = 44 + Fs
        /\ Fs <= Len(FSDColumns) =>
               ColumnNames = FixedColumns \o SubSeq(FSDColumns, 1, Fs) \o PairedColumns
        /\ \A a, b \in 1..Len(df) : a # b => df[a].name # df[b].name

C8_Witness ==
    /\ pc = "done"
    /\ Fs = 6
    /\ Len(df) = 50
    /\ df[16].name = "FSD6"
    /\ df[50].name = "CytoplasmStdIntensity"

\* whether a window pixel lies in the dilated footprint of the nucleus: some
\* pixel of the window with the region's label is within distance Delta
InDilatedFootprint(p) ==
    \E q \in WindowPixels :
        /\ LabelAt(q) = Current.label
        /\ (q[1] - p[1]) * (q[1] - p[1]) + (q[2] - p[2]) * (q[2] - p[2])
               <= Delta * Delta

\* C9 as stated: the CytoplasmMask is exactly the window pixels with a
\* positive label minus the dilated footprint of the nucleus, so every
\* cytoplasm pixel has a positive label and lies outside the footprint.
C9_MaskMinusFootprint ==
    AfterIteration =>
        \A p \in WindowPixels :
            cytoplasm[p[1]][p[2]] <=> (LabelAt(p) > 0 /\ ~InDilatedFootprint(p))

\* C9 amended: the CytoplasmMask is exactly the symmetric difference of the
\* window pixels with a positive label and the dilated footprint of the
\* nucleus: a cytoplasm pixel either has a positive label and lies outside
\* the footprint, or is background and lies inside it.
C9_SymmetricDifference ==
    AfterIteration =>
        /\ \A p \in WindowPixels :
               cytoplasm[p[1]][p[2]] <=> ((LabelAt(p) > 0) # InDilatedFootprint(p))
        /\ regionCoords =
               {<<p[1] + min_row, p[2] + min_col>> : p \in argwhere(cytoplasm)}

C9_Witness ==
    /\ AfterIteration
    /\ \E p \in WindowPixels :
           cytoplasm[p[1]][p[2]] /\ LabelAt(p) = 0 /\ InDilatedFootprint(p)
    /\ \E p \in WindowPixels : LabelAt(p) = Current.label

\* C10: the window slice taken with the bounds of GetBounds contains every
\* pixel of the region, also for a region on the last row or column of the
\* image: the NucleusMask has as many true pixels as the region's area.
C10_WindowHoldsRegion ==
    AfterIteration =>
        /\ Cardinality(argwhere(Nucleus)) = Current.area
        /\ \A q \in Current.coords :
               /\ q[1] \in min_row..(max_row - 1)
               /\ q[2] \in min_col..(max_col - 1)

====
